---- MODULE Spec2Model ----
(***************************************************************************)
(* A model of the ai-doc-engine backend: the template analyzer             *)
(* (extract_placeholders), the substitution engine (generate_filled_docx), *)
(* the two HTTP handlers of main.py (transcribe_endpoint,                  *)
(* generate_docx_endpoint) over the file store they share, and the lazily  *)
(* loaded transcription model (get_whisper_model).                         *)
(*                                                                         *)
(* Text is a sequence of one-character strings, so that str.replace,       *)
(* str.find, str.strip, str.lower, re.findall and sorted act on characters *)
(* as they do in Python.                                                   *)
(***************************************************************************)
EXTENDS Integers, Sequences, FiniteSets, TLC

VARIABLES pc, doc, filled_data, replacements, afterLiteral, out,
          placeholders, req, fs, resp, nextId, stored, generated,
          served, whisper_model, loads, tpc, tlocal, tret

vars == <<pc, doc, filled_data, replacements, afterLiteral, out,
          placeholders, req, fs, resp, nextId, stored, generated,
          served, whisper_model, loads, tpc, tlocal, tret>>

fillVars == <<doc, filled_data, replacements, afterLiteral, out>>
serverVars == <<req, fs, resp, nextId, stored, generated, served>>
whisperVars == <<whisper_model, loads, tpc, tlocal, tret>>

\* ------------------------------------------------------------------------
\* Bounds of the model
\* ------------------------------------------------------------------------

\* Body paragraphs of a document.
MaxBody == 2
\* Field specs in a metadata mapping handed to generate_filled_docx.
MaxSpecs == 2
\* Threads calling get_whisper_model concurrently.
NThreads == 2
\* Requests served in the store specification.
MaxRequests == 3

\* ------------------------------------------------------------------------
\* Python strings
\* ------------------------------------------------------------------------

\* ord(c) for the characters the model uses.
CodePoint(c) ==
    CASE c = " " -> 32 [] c = "\"" -> 34 [] c = "'" -> 39 [] c = "," -> 44
      [] c = "-" -> 45 [] c = "0" -> 48 [] c = "1" -> 49 [] c = "2" -> 50
      [] c = "3" -> 51 [] c = "4" -> 52 [] c = "5" -> 53 [] c = "6" -> 54
      [] c = "7" -> 55 [] c = "8" -> 56 [] c = "9" -> 57 [] c = ":" -> 58
      [] c = "D" -> 68 [] c = "E" -> 69 [] c = "F" -> 70 [] c = "G" -> 71
      [] c = "I" -> 73 [] c = "J" -> 74 [] c = "M" -> 77 [] c = "N" -> 78
      [] c = "O" -> 79 [] c = "P" -> 80 [] c = "Q" -> 81 [] c = "S" -> 83
      [] c = "T" -> 84 [] c = "V" -> 86 [] c = "[" -> 91 [] c = "]" -> 93
      [] c = "a" -> 97 [] c = "b" -> 98 [] c = "c" -> 99 [] c = "d" -> 100
      [] c = "e" -> 101 [] c = "f" -> 102 [] c = "g" -> 103 [] c = "i" -> 105
      [] c = "j" -> 106 [] c = "l" -> 108 [] c = "m" -> 109 [] c = "n" -> 110
      [] c = "o" -> 111 [] c = "p" -> 112 [] c = "q" -> 113 [] c = "r" -> 114
      [] c = "s" -> 115 [] c = "t" -> 116 [] c = "u" -> 117 [] c = "v" -> 118
      [] c = "x" -> 120 [] c = "y" -> 121 [] c = "z" -> 122 [] c = "{" -> 123
      [] c = "}" -> 125
      [] OTHER -> 0

\* str.lower on one character.
LowerChar(c) ==
    CASE c = "D" -> "d" [] c = "E" -> "e" [] c = "F" -> "f" [] c = "G" -> "g"
      [] c = "I" -> "i" [] c = "J" -> "j" [] c = "M" -> "m" [] c = "N" -> "n"
      [] c = "O" -> "o" [] c = "P" -> "p" [] c = "Q" -> "q" [] c = "S" -> "s"
      [] c = "T" -> "t" [] c = "V" -> "v"
      [] OTHER -> c

\* str.lower
Lower(s) == [i \in 1..Len(s) |-> LowerChar(s[i])]

\* s[i:i+len(sub)] == sub, for a 1-based i
StartsAt(s, sub, i) ==
    /\ i + Len(sub) - 1 <= Len(s)
    /\ SubSeq(s, i, i + Len(sub) - 1) = sub

RECURSIVE FindFrom(_, _, _)
FindFrom(s, sub, i) ==
    IF i + Len(sub) - 1 > Len(s) THEN 0
    ELSE IF StartsAt(s, sub, i) THEN i
    ELSE FindFrom(s, sub, i + 1)

\* str.find: the 1-based place of the first occurrence, 0 when there is none.
Find(s, sub) == FindFrom(s, sub, 1)

\* sub in s
Contains(s, sub) == Find(s, sub) > 0

RECURSIVE Interleave(_, _, _)
Interleave(s, new, i) ==
    IF i > Len(s) THEN new ELSE new \o <<s[i]>> \o Interleave(s, new, i + 1)

RECURSIVE ReplaceFrom(_, _, _, _)
ReplaceFrom(s, old, new, i) ==
    IF i > Len(s) THEN <<>>
    ELSE IF StartsAt(s, old, i) THEN new \o ReplaceFrom(s, old, new, i + Len(old))
    ELSE <<s[i]>> \o ReplaceFrom(s, old, new, i + 1)

\* str.replace: every non-overlapping occurrence, leftmost first.
Replace(s, old, new) ==
    IF old = <<>> THEN Interleave(s, new, 1) ELSE ReplaceFrom(s, old, new, 1)

RECURSIVE LStrip(_)
LStrip(s) == IF s # <<>> /\ Head(s) = " " THEN LStrip(Tail(s)) ELSE s

RECURSIVE RStrip(_)
RStrip(s) ==
    IF s # <<>> /\ s[Len(s)] = " " THEN RStrip(SubSeq(s, 1, Len(s) - 1)) ELSE s

\* str.strip
Strip(s) == RStrip(LStrip(s))

IsBracket(c) == c = "[" \/ c = "]"

RECURSIVE NextBracket(_, _)
NextBracket(s, j) ==
    IF j > Len(s) \/ IsBracket(s[j]) THEN j ELSE NextBracket(s, j + 1)

RECURSIVE FindAllFrom(_, _)
FindAllFrom(s, i) ==
    IF i > Len(s) THEN <<>>
    ELSE IF s[i] = "["
         THEN LET j == NextBracket(s, i + 1)
              IN  IF j <= Len(s) /\ j > i + 1 /\ s[j] = "]"
                  THEN <<SubSeq(s, i + 1, j - 1)>> \o FindAllFrom(s, j + 1)
                  ELSE FindAllFrom(s, i + 1)
         ELSE FindAllFrom(s, i + 1)

\* re.findall(r'\[([^\[\]]+)\]', s): the inner names, left to right.
FindAll(s) == FindAllFrom(s, 1)

RECURSIVE StrLess(_, _)
\* a < b for Python strings: lexicographic by code point.
StrLess(a, b) ==
    IF b = <<>> THEN FALSE
    ELSE IF a = <<>> THEN TRUE
    ELSE IF CodePoint(Head(a)) # CodePoint(Head(b))
         THEN CodePoint(Head(a)) < CodePoint(Head(b))
         ELSE StrLess(Tail(a), Tail(b))

RECURSIVE Sorted(_)
\* sorted(list(S)) for a set S of strings.
Sorted(S) ==
    IF S = {} THEN <<>>
    ELSE LET m == CHOOSE x \in S : \A y \in S \ {x} : StrLess(x, y)
         IN  <<m>> \o Sorted(S \ {m})

Range(q) == {q[i] : i \in 1..Len(q)}

RECURSIVE Concat(_)
\* "".join(q)
Concat(q) == IF q = <<>> THEN <<>> ELSE Head(q) \o Concat(Tail(q))

\* ------------------------------------------------------------------------
\* Python dicts: a sequence of entries [k, v] with distinct keys, in
\* insertion order.
\* ------------------------------------------------------------------------

Keys(d) == {d[i].k : i \in 1..Len(d)}

Has(d, key) == key \in Keys(d)

Get(d, key) == d[CHOOSE i \in 1..Len(d) : d[i].k = key].v

\* d.get(key, default)
GetOr(d, key, default) == IF Has(d, key) THEN Get(d, key) ELSE default

\* d[key] = val
Put(d, key, val) ==
    IF Has(d, key)
    THEN [i \in 1..Len(d) |-> IF d[i].k = key THEN [k |-> key, v |-> val] ELSE d[i]]
    ELSE Append(d, [k |-> key, v |-> val])

\* ------------------------------------------------------------------------
\* Documents (python-docx): body paragraphs and the paragraphs of the table
\* cells; a paragraph is its runs, a run is its text and its bold flag.
\* ------------------------------------------------------------------------

Run(t, b) == [text |-> t, bold |-> b]

\* Paragraph.text (getter): the runs' text, concatenated.
ParaText(p) == Concat([i \in 1..Len(p) |-> p[i].text])

\* Paragraph.text = t (setter): the content is cleared and one unformatted
\* run holds the text.
SetText(t) == <<Run(t, "None")>>

Doc(body, cells) == [body |-> body, cells |-> cells]

\* ------------------------------------------------------------------------
\* services.py: extract_placeholders
\* ------------------------------------------------------------------------

\* doc.paragraphs: the paragraphs of the document body (python-docx leaves
\* out the paragraphs inside tables).
DocParagraphs(d) == d.body

\* The set the loop of lines 51-53 collects, and its sorted list.
extract_placeholders(d) ==
    Sorted(UNION {Range(FindAll(ParaText(DocParagraphs(d)[i]))) :
                    i \in 1..Len(DocParagraphs(d))})

\* ------------------------------------------------------------------------
\* services.py: generate_filled_docx
\* ------------------------------------------------------------------------

RECURSIVE CleanFrom(_, _, _)
CleanFrom(fd, i, acc) ==
    IF i > Len(fd) THEN acc
    ELSE CleanFrom(fd, i + 1, Put(acc, Strip(fd[i].k), fd[i].v))

\* clean_data = {k.strip(): str(v) for k, v in filled_data.items()}
\* (the values of the model are strings, on which str is the identity)
clean_data(fd) == CleanFrom(fd, 1, <<>>)

\* ReplaceInPara without the membership test of lines 188 and 195: every
\* paragraph is rewritten through its text.
ReplaceInParaAlways(p, original, new_val) ==
    SetText(Replace(ParaText(p), original, new_val))

\* Lines 188-189 and 195-196: one paragraph against one original.
ReplaceInPara(p, original, new_val) ==
    IF Contains(ParaText(p), original)
    THEN SetText(Replace(ParaText(p), original, new_val))
    ELSE p

\* new_val = clean_data.get(field, meta.get("new", ""))
FinalValue(clean, spec) == GetOr(clean, spec.name, spec.new)

\* ApplySpec without the loop over the tables of lines 191-196.
ApplySpecBodyOnly(d, clean, spec) ==
    IF spec.original = <<>> THEN d
    ELSE Doc([i \in 1..Len(d.body) |->
                 ReplaceInPara(d.body[i], spec.original, FinalValue(clean, spec))],
             d.cells)

\* One turn of the loop of lines 179-196: the body, then the table cells.
ApplySpec(d, clean, spec) ==
    IF spec.original = <<>> THEN d
    ELSE LET new_val == FinalValue(clean, spec)
         IN  Doc([i \in 1..Len(d.body) |->
                     ReplaceInPara(d.body[i], spec.original, new_val)],
                 [i \in 1..Len(d.cells) |->
                     ReplaceInPara(d.cells[i], spec.original, new_val)])

RECURSIVE LiteralFrom(_, _, _, _)
LiteralFrom(d, clean, repl, i) ==
    IF i > Len(repl) THEN d
    ELSE LiteralFrom(ApplySpec(d, clean, repl[i]), clean, repl, i + 1)

\* Lines 177-196. An absent or empty replacements mapping is falsy: the
\* empty sequence stands for both.
LiteralPass(d, clean, repl) == LiteralFrom(d, clean, repl, 1)

Bracketed(m) == <<"[">> \o m \o <<"]">>

RECURSIVE SubstMatches(_, _, _, _)
\* The loop of lines 208-214 over the matches found in the original text.
SubstMatches(matches, i, clean, st) ==
    IF i > Len(matches) THEN st
    ELSE LET m == matches[i]
             m_clean == Strip(m)
             bracket == Bracketed(m)
         IN  IF Has(clean, m_clean) /\ Contains(st.new_text, bracket)
             THEN SubstMatches(matches, i + 1, clean,
                     [new_text |-> Replace(st.new_text, bracket, Get(clean, m_clean)),
                      changed |-> TRUE])
             ELSE SubstMatches(matches, i + 1, clean, st)

\* Lines 219-233: the runs are removed and rebuilt from the new text.
RebuildRuns(new_text) ==
    LET colon_pos == Find(new_text, <<":", " ">>)
    IN  IF colon_pos > 0
        THEN <<Run(SubSeq(new_text, 1, colon_pos + 1), "True"),
               Run(SubSeq(new_text, colon_pos + 2, Len(new_text)), "False")>>
        ELSE <<Run(new_text, "None")>>

\* One turn of the loop of lines 199-233.
BracketPara(p, clean) ==
    LET full_text == ParaText(p)
    IN  IF ~Contains(full_text, <<"[">>) THEN p
        ELSE LET st == SubstMatches(FindAll(full_text), 1, clean,
                          [new_text |-> full_text, changed |-> FALSE])
             IN  IF ~st.changed THEN p ELSE RebuildRuns(st.new_text)

\* Lines 198-233: the body paragraphs only.
BracketPass(d, clean) ==
    Doc([i \in 1..Len(d.body) |-> BracketPara(d.body[i], clean)], d.cells)

\* The document after the literal-span pass, and the document saved.
generate_filled_docx(d, fd, repl) ==
    LET clean == clean_data(fd)
        lit == IF repl # <<>> THEN LiteralPass(d, clean, repl) ELSE d
    IN  [literal |-> lit, saved |-> BracketPass(lit, clean)]

\* ------------------------------------------------------------------------
\* Inputs of the substitution engine
\* ------------------------------------------------------------------------

\* "P: [N]", a bold label and the token
ParaLabel == <<Run(<<"P", ":", " ">>, "True"), Run(<<"[", "N", "]">>, "None")>>
\* "[ N ] [M]"
ParaTwoTokens == <<Run(<<"[", " ", "N", " ", "]", " ", "[", "M", "]">>, "None")>>
\* "ab ab", two formatted runs and no bracket
ParaPlain == <<Run(<<"a", "b", " ">>, "True"), Run(<<"a", "b">>, "False")>>
\* "[Q] a[b", a token no value is given for and a stray bracket
ParaUnmatched == <<Run(<<"[", "Q", "]", " ">>, "True"), Run(<<"a", "[", "b">>, "None")>>
\* "[N]"
ParaToken == <<Run(<<"[", "N", "]">>, "True")>>

BodyParas == {ParaLabel, ParaTwoTokens, ParaPlain, ParaUnmatched, ParaToken}

\* "ab [N]" and "[M]", inside a table cell
CellPlain == <<Run(<<"a", "b", " ">>, "True"), Run(<<"[", "N", "]">>, "None")>>
CellToken == <<Run(<<"[", "M", "]">>, "None")>>

CellSeqs == {<<>>, <<CellPlain>>, <<CellToken>>}

SeqsUpTo(S, n) == UNION {[1..k -> S] : k \in 0..n}

Docs == {Doc(b, c) : b \in SeqsUpTo(BodyParas, MaxBody), c \in CellSeqs}

Entry(key, val) == [k |-> key, v |-> val]

\* The "data" of a generate request: keys as the caller sent them.
FilledDatas ==
    { <<>>,
      <<Entry(<<" ", "N", " ">>, <<"J", " ", "S">>)>>,
      <<Entry(<<"N">>, <<"x", ":", " ", "y">>), Entry(<<"F">>, <<"c">>)>>,
      <<Entry(<<"N">>, <<"[", "M", "]">>), Entry(<<"M">>, <<"z">>)>>,
      <<Entry(<<"N">>, <<"a">>), Entry(<<" ", "N">>, <<"b">>)>> }

FieldSpec(name, original, new) == [name |-> name, original |-> original, new |-> new]

FieldSpecs ==
    { FieldSpec(<<"F">>, <<"a", "b">>, <<"x">>),
      FieldSpec(<<"G">>, <<"x">>, <<"a", "b">>),
      FieldSpec(<<"D">>, <<>>, <<"z", "z">>),
      FieldSpec(<<" ", "N", " ">>, <<"P">>, <<"Q">>) }

\* The metadata mappings: field specs under distinct names, in order.
Replacements ==
    {r \in SeqsUpTo(FieldSpecs, MaxSpecs) :
        \A i, j \in 1..Len(r) : i # j => r[i].name # r[j].name}

NoDoc == Doc(<<>>, <<>>)

\* ------------------------------------------------------------------------
\* The substitution engine on every input
\* ------------------------------------------------------------------------

IdleServer ==
    /\ placeholders = <<>>
    /\ req = 0 /\ fs = 0 /\ resp = 0 /\ nextId = 0 /\ stored = 0 /\ generated = 0
    /\ served = 0

IdleWhisper ==
    /\ whisper_model = 0 /\ loads = 0 /\ tpc = 0 /\ tlocal = 0 /\ tret = 0

IdleFill ==
    /\ doc = NoDoc /\ filled_data = <<>> /\ replacements = <<>>
    /\ afterLiteral = NoDoc /\ out = NoDoc

InitFill ==
    /\ pc = "input"
    /\ doc \in Docs
    /\ filled_data \in FilledDatas
    /\ replacements \in Replacements
    /\ afterLiteral = NoDoc
    /\ out = NoDoc
    /\ IdleServer
    /\ IdleWhisper

\* generate_filled_docx, from the template read to the document saved.
GenerateFilledDocx ==
    /\ pc = "input"
    /\ LET r == generate_filled_docx(doc, filled_data, replacements)
       IN  /\ afterLiteral' = r.literal
           /\ out' = r.saved
    /\ pc' = "saved"
    /\ UNCHANGED <<doc, filled_data, replacements, placeholders>>
    /\ UNCHANGED serverVars
    /\ UNCHANGED whisperVars

NextFill == GenerateFilledDocx

SpecFill == InitFill /\ [][NextFill]_vars

\* ------------------------------------------------------------------------
\* JSON values as json.loads returns them: t is the Python type, s the text
\* of a str or the decimal text of a number, items the elements of a list or
\* the entries [k, v] of a dict.
\* ------------------------------------------------------------------------

JNull == [t |-> "null", s |-> <<>>, items |-> <<>>]
JStr(x) == [t |-> "str", s |-> x, items |-> <<>>]
JNum(x) == [t |-> "num", s |-> x, items |-> <<>>]
JList(xs) == [t |-> "list", s |-> <<>>, items |-> xs]
JDict(es) == [t |-> "dict", s |-> <<>>, items |-> es]

\* bool(v)
Truthy(v) ==
    CASE v.t = "str" -> v.s # <<>>
      [] v.t = "num" -> v.s # <<"0">>
      [] v.t = "null" -> FALSE
      [] OTHER -> v.items # <<>>

RECURSIVE Join(_, _)
\* sep.join(q)
Join(sep, q) ==
    IF q = <<>> THEN <<>>
    ELSE IF Len(q) = 1 THEN q[1]
    ELSE q[1] \o sep \o Join(sep, Tail(q))

CommaSpace == <<",", " ">>

RECURSIVE PyRepr(_)
\* repr(v)
PyRepr(v) ==
    CASE v.t = "str" -> <<"'">> \o v.s \o <<"'">>
      [] v.t = "num" -> v.s
      [] v.t = "null" -> <<"N", "o", "n", "e">>
      [] v.t = "list" ->
            <<"[">> \o Join(CommaSpace, [i \in 1..Len(v.items) |-> PyRepr(v.items[i])])
                    \o <<"]">>
      [] OTHER ->
            <<"{">> \o Join(CommaSpace,
                            [i \in 1..Len(v.items) |->
                                <<"'">> \o v.items[i].k \o <<"'", ":", " ">>
                                        \o PyRepr(v.items[i].v)])
                    \o <<"}">>

\* str(v)
PyStr(v) == IF v.t = "str" THEN v.s ELSE PyRepr(v)

RECURSIVE JsonDumps(_)
\* json.dumps(v, ensure_ascii=False)
JsonDumps(v) ==
    CASE v.t = "str" -> <<"\"">> \o v.s \o <<"\"">>
      [] v.t = "num" -> v.s
      [] v.t = "null" -> <<"n", "u", "l", "l">>
      [] v.t = "list" ->
            <<"[">> \o Join(CommaSpace, [i \in 1..Len(v.items) |-> JsonDumps(v.items[i])])
                    \o <<"]">>
      [] OTHER ->
            <<"{">> \o Join(CommaSpace,
                            [i \in 1..Len(v.items) |->
                                <<"\"">> \o v.items[i].k \o <<"\"", ":", " ">>
                                         \o JsonDumps(v.items[i].v)])
                    \o <<"}">>

\* The content of the collaborator's message: text that json.loads rejects,
\* or the text of a JSON value.
Invalid(raw) == [kind |-> "invalid", raw |-> raw, value |-> JNull]
Json(v) == [kind |-> "json", raw |-> JsonDumps(v), value |-> v]

\* ------------------------------------------------------------------------
\* main.py: transcribe_endpoint
\* ------------------------------------------------------------------------

\* Lines 145-155: one value of parsed_data.
NormalizeValue(v) ==
    IF v.t \in {"dict", "list"}
    THEN IF v.t = "list" /\ \A i \in 1..Len(v.items) : v.items[i].t = "str"
         THEN JStr(Join(CommaSpace, [i \in 1..Len(v.items) |-> v.items[i].s]))
         ELSE JStr(JsonDumps(v))
    ELSE IF v.t = "null" THEN JStr(<<>>)
    ELSE JStr(PyStr(v))

\* Lines 143-155: applied when parsed_data is a dict.
Normalize(parsed_data) ==
    IF parsed_data.t = "dict"
    THEN JDict([i \in 1..Len(parsed_data.items) |->
                   [k |-> parsed_data.items[i].k,
                    v |-> NormalizeValue(parsed_data.items[i].v)]])
    ELSE parsed_data

NotMentioned == <<"n", "o", "t", " ", "m", "e", "n", "t", "i", "o", "n", "e", "d">>
DateWord == <<"d", "a", "t", "e">>

\* details.get("new", "")
NewOf(details) == GetOr(details.items, <<"n", "e", "w">>, JStr(<<>>))

\* The condition of line 112 raises AttributeError on a truthy new value that
\* has no lower().
FallbackRaises(k, v) ==
    /\ v.t = "dict"
    /\ Contains(Lower(k), DateWord)
    /\ Truthy(NewOf(v))
    /\ NewOf(v).t # "str"

\* NeedsDate comparing the new value as it is written.
NeedsDateCaseSensitive(k, v) ==
    /\ v.t = "dict"
    /\ Contains(Lower(k), DateWord)
    /\ (~Truthy(NewOf(v)) \/ NewOf(v).s = NotMentioned)

\* Lines 110-112: the entry gets today's date.
NeedsDate(k, v) ==
    /\ v.t = "dict"
    /\ Contains(Lower(k), DateWord)
    /\ (~Truthy(NewOf(v)) \/ Lower(NewOf(v).s) = NotMentioned)

\* Lines 109-113 on a dict no entry of which raises.
DateFallback(inferred_data, today_str) ==
    JDict([i \in 1..Len(inferred_data.items) |->
        LET e == inferred_data.items[i]
        IN  IF NeedsDate(e.k, e.v)
            THEN [k |-> e.k,
                  v |-> JDict(Put(e.v.items, <<"n", "e", "w">>, JStr(today_str)))]
            ELSE e])

\* Lines 122-127: {"Field": "New Value"}
Flatten(inferred_data) ==
    JDict([i \in 1..Len(inferred_data.items) |->
        LET e == inferred_data.items[i]
        IN  [k |-> e.k,
             v |-> IF e.v.t = "dict" THEN NewOf(e.v) ELSE JStr(PyStr(e.v))]])

KeyList(d) == [i \in 1..Len(d.items) |-> d.items[i].k]

\* The JSONResponse of lines 161-166, the FileResponse of line 213 and the
\* HTTPException of lines 170 and 217. No custom template id is 0.
Response(status, detail, data, names, cid, mode) ==
    [status |-> status, detail |-> detail, data |-> data, placeholders |-> names,
     custom_template_id |-> cid, mode |-> mode]

Failed(detail) == Response(500, detail, JNull, <<>>, 0, "none")

\* What a handler leaves behind: the files, the uuid counter, the model
\* loaded, and the response.
Outcome(f, n, w, r) == [fs |-> f, nextId |-> n, whisper |-> w, resp |-> r]

\* services.py get_whisper_model, called by one request at a time.
ModelAfterCall(w) ==
    IF w.model = 0 THEN [model |-> 1, loads |-> w.loads + 1] ELSE w

\* The template the request is analysed against (lines 52-64).
TemplatePath(f, r) ==
    IF r.has_template THEN [exists |-> TRUE, doc |-> r.template]
    ELSE LET name == IF r.template_type = "hr" THEN "hr" ELSE "doctor"
         IN  IF name \in DOMAIN f.builtin
             THEN [exists |-> TRUE, doc |-> f.builtin[name]]
             ELSE [exists |-> FALSE, doc |-> NoDoc]

\* Lines 91-129, after the collaborator answered.
SmartMode(f, n, w, r, cid, file_id) ==
    LET inferred_data == IF r.ai.kind = "invalid" THEN JDict(<<>>) ELSE r.ai.value
    IN  IF inferred_data.t # "dict" THEN Outcome(f, n, w, Failed("AttributeError"))
        ELSE IF \E i \in 1..Len(inferred_data.items) :
                    FallbackRaises(inferred_data.items[i].k, inferred_data.items[i].v)
        THEN Outcome(f, n, w, Failed("AttributeError"))
        ELSE LET dated == DateFallback(inferred_data, r.today)
                 f1 == IF cid # 0 /\ dated.items # <<>>
                       THEN [f EXCEPT !.meta = (cid :> dated) @@ @]
                       ELSE f
                 parsed_data == Normalize(Flatten(dated))
             IN  Outcome([f1 EXCEPT !.audio = @ \ {file_id}], n, w,
                         Response(200, "ok", parsed_data, KeyList(parsed_data),
                                  cid, "implicit"))

\* Lines 131-155: parse_transcript_with_ai returns the message content, a str.
StandardMode(f, n, w, r, cid, file_id, names) ==
    LET parsed_data == IF r.ai.kind = "invalid" THEN JStr(r.ai.raw) ELSE r.ai.value
    IN  Outcome([f EXCEPT !.audio = @ \ {file_id}], n, w,
                Response(200, "ok", Normalize(parsed_data), names, cid, "explicit"))

\* transcribe_endpoint: the whole handler, on the files f, the uuid counter n,
\* the transcription model w and the request r.
transcribe_endpoint(f, n, w, r) ==
    LET cid == IF r.has_template THEN n ELSE 0
        n1 == IF r.has_template THEN n + 1 ELSE n
        f1 == IF r.has_template
              THEN [f EXCEPT !.custom = (cid :> r.template) @@ @]
              ELSE f
        tpl == TemplatePath(f, r)
        file_id == n1
        n2 == n1 + 1
        f2 == [f1 EXCEPT !.audio = @ \cup {file_id}]
        f3 == IF r.audio.is_wav THEN f2 ELSE [f2 EXCEPT !.wav = @ \cup {file_id}]
        w1 == ModelAfterCall(w)
        names == extract_placeholders(tpl.doc)
    IN  IF ~tpl.exists
        THEN Outcome(f1, n1, w, Failed("Template file missing on server"))
        ELSE IF r.audio.result = "convert_error"
        THEN Outcome(f2, n2, w, Failed("CouldntDecodeError"))
        ELSE IF r.audio.result = "empty"
        THEN Outcome(f3, n2, w1, Failed("Transcription failed"))
        ELSE IF ~r.api_key
        THEN Outcome(f3, n2, w1, Failed("GROQ_API_KEY not set on server"))
        ELSE IF r.ai.kind = "raise"
        THEN Outcome(f3, n2, w1, Failed("HTTPError"))
        ELSE IF names = <<>>
        THEN SmartMode(f3, n2, w1, r, cid, file_id)
        ELSE StandardMode(f3, n2, w1, r, cid, file_id, names)

\* ------------------------------------------------------------------------
\* main.py: generate_docx_endpoint
\* ------------------------------------------------------------------------

OriginalKey == <<"o", "r", "i", "g", "i", "n", "a", "l">>

\* The entries of a metadata mapping as generate_filled_docx reads them:
\* meta.get("original") and meta.get("new", ""). The metadata of the model
\* holds str values under both keys, or leaves the key out.
MetaSpecs(meta) ==
    [i \in 1..Len(meta.items) |->
        FieldSpec(meta.items[i].k,
                  GetOr(meta.items[i].v.items, OriginalKey, JStr(<<>>)).s,
                  NewOf(meta.items[i].v).s)]

\* meta.get raises AttributeError on an entry that is not a dict.
MetaRaises(meta) == \E i \in 1..Len(meta.items) : meta.items[i].v.t # "dict"

\* Lines 180-190: the template of the request.
GenerateTemplate(f, g) ==
    IF g.custom_template_id # 0
    THEN IF g.custom_template_id \in DOMAIN f.custom
         THEN [exists |-> TRUE, doc |-> f.custom[g.custom_template_id]]
         ELSE [exists |-> FALSE, doc |-> NoDoc]
    ELSE LET name == IF g.template_type = "hr" THEN "hr" ELSE "doctor"
         IN  IF name \in DOMAIN f.builtin
             THEN [exists |-> TRUE, doc |-> f.builtin[name]]
             ELSE [exists |-> FALSE, doc |-> NoDoc]

\* generate_docx_endpoint with out_path set to tpl_path: the filled document
\* is saved over the template it was made from.
generate_docx_endpoint_overwriting(f, n, w, g) ==
    LET tpl == GenerateTemplate(f, g)
        cid == g.custom_template_id
        has_meta == cid # 0 /\ cid \in DOMAIN f.meta
        repl == IF has_meta THEN f.meta[cid] ELSE JDict(<<>>)
        filled == generate_filled_docx(tpl.doc, g.data, MetaSpecs(repl)).saved
    IN  IF ~tpl.exists THEN Outcome(f, n, w, Failed("Template missing"))
        ELSE IF MetaRaises(repl) THEN Outcome(f, n + 1, w, Failed("AttributeError"))
        ELSE Outcome(IF cid # 0
                     THEN [f EXCEPT !.custom[cid] = filled]
                     ELSE [f EXCEPT !.builtin[IF g.template_type = "hr" THEN "hr"
                                              ELSE "doctor"] = filled],
                     n + 1, w, Response(200, "ok", JNull, <<>>, cid, "generate"))

\* generate_docx_endpoint: the whole handler, on the files f, the uuid
\* counter n and the request g.
generate_docx_endpoint(f, n, w, g) ==
    LET tpl == GenerateTemplate(f, g)
        cid == g.custom_template_id
        out_id == n
        has_meta == cid # 0 /\ cid \in DOMAIN f.meta
        repl == IF has_meta THEN f.meta[cid] ELSE JDict(<<>>)
    IN  IF ~tpl.exists THEN Outcome(f, n, w, Failed("Template missing"))
        ELSE IF MetaRaises(repl) THEN Outcome(f, n + 1, w, Failed("AttributeError"))
        ELSE Outcome([f EXCEPT !.output = (out_id :>
                         generate_filled_docx(tpl.doc, g.data, MetaSpecs(repl)).saved) @@ @],
                     n + 1, w, Response(200, "ok", JNull, <<>>, cid, "generate"))

\* ------------------------------------------------------------------------
\* Inputs of the handlers
\* ------------------------------------------------------------------------

NewKey == <<"n", "e", "w">>
NotMentionedCap == <<"N", "o", "t", " ", "m", "e", "n", "t", "i", "o", "n", "e", "d">>
NotMentionedUp == <<"N", "O", "T", " ", "M", "E", "N", "T", "I", "O", "N", "E", "D">>
VisitDate == <<"V", " ", "D", "a", "t", "e">>
LowerDate == <<"d", "a", "t", "e">>
Dx == <<"D", "x">>

Spec2(original, new) ==
    JDict(<<Entry(OriginalKey, JStr(original)), Entry(NewKey, new)>>)

SpecNoNew(original) == JDict(<<Entry(OriginalKey, JStr(original))>>)

Cough == JStr(<<"c", "o">>)
Fever == JStr(<<"f", "e">>)

\* What the collaborator may answer, in either mode.
AiContents ==
    { [kind |-> "raise", raw |-> <<>>, value |-> JNull],
      Invalid(<<"o", "o", "p", "s">>),
      Json(JDict(<<Entry(<<"N">>, JStr(<<"J", " ", "S">>))>>)),
      Json(JDict(<<Entry(<<"N">>, JList(<<Cough, Fever>>)), Entry(Dx, JNull)>>)),
      Json(JDict(<<Entry(<<"N">>, JDict(<<Entry(<<"a">>, JNum(<<"1">>))>>)),
                   Entry(Dx, JNum(<<"5">>))>>)),
      Json(JDict(<<Entry(<<"N">>, JList(<<Cough, JNum(<<"1">>)>>)),
                   Entry(Dx, JList(<<>>))>>)),
      Json(JList(<<Cough>>)),
      Json(JDict(<<>>)),
      Json(JDict(<<Entry(VisitDate, Spec2(<<"2", "0">>, JStr(NotMentionedCap))),
                   Entry(Dx, Spec2(<<"a", "b">>, JStr(NotMentionedCap)))>>)),
      Json(JDict(<<Entry(LowerDate, SpecNoNew(<<"x">>)),
                   Entry(Dx, Spec2(<<"y">>, JNull))>>)),
      Json(JDict(<<Entry(VisitDate, Spec2(<<"2", "0">>, JStr(NotMentionedUp))),
                   Entry(Dx, Spec2(<<"a", "b">>, JList(<<Cough, Fever>>)))>>)),
      Json(JDict(<<Entry(VisitDate, Spec2(<<"2", "0">>, JStr(<<"2", "1">>))),
                   Entry(Dx, Spec2(<<"a", "b">>, JStr(<<>>)))>>)),
      Json(JDict(<<Entry(VisitDate, Spec2(<<"2", "0">>, JNum(<<"5">>)))>>)),
      Json(JDict(<<Entry(VisitDate, Spec2(<<"2", "0">>, JStr(<<>>)))>>)) }

\* datetime.now().strftime("%Y-%m-%d")
Dates ==
    { <<"2", "0", "2", "5", "-", "1", "2", "-", "3", "1">>,
      <<"2", "0", "2", "6", "-", "0", "1", "-", "0", "1">> }

\* The upload: a .wav file or one that is converted, and what transcription
\* gives.
Audios ==
    { [is_wav |-> TRUE, result |-> "text"],
      [is_wav |-> FALSE, result |-> "text"],
      [is_wav |-> FALSE, result |-> "empty"],
      [is_wav |-> FALSE, result |-> "convert_error"] }

\* Custom templates: with a token in the body, without any bracket, and with
\* a token in a table cell only.
TplExplicit == Doc(<<ParaLabel, ParaToken>>, <<>>)
TplImplicit == Doc(<<ParaPlain>>, <<>>)
TplTable == Doc(<<ParaPlain>>, <<CellToken>>)

Request(has, tpl, type, audio, key, ai, today) ==
    [has_template |-> has, template |-> tpl, template_type |-> type,
     audio |-> audio, api_key |-> key, ai |-> ai, today |-> today]

AnalyzeRequests ==
    {Request(TRUE, t, "doctor", a, k, c, d) :
        t \in {TplExplicit, TplImplicit, TplTable},
        a \in Audios, k \in BOOLEAN, c \in AiContents, d \in Dates}
    \cup
    {Request(FALSE, NoDoc, ty, a, k, c, d) :
        ty \in {"doctor", "hr"},
        a \in Audios, k \in BOOLEAN, c \in AiContents, d \in Dates}

\* TEMPLATE_DIR and UPLOAD_DIR: the built-in templates, the custom templates
\* and the metadata by identifier, the audio files and their .wav copies by
\* identifier, the generated documents by identifier.
Files(builtin) ==
    [builtin |-> builtin, custom |-> <<>>, meta |-> <<>>,
     audio |-> {}, wav |-> {}, output |-> <<>>]

BuiltIn == [doctor |-> TplExplicit, hr |-> TplImplicit]
OnlyHr == [hr |-> TplImplicit]

NoRequest == Request(FALSE, NoDoc, "doctor", [is_wav |-> TRUE, result |-> "text"],
                     FALSE, Invalid(<<>>), <<>>)
NoResponse == Response(0, "none", JNull, <<>>, 0, "none")

IdleThreads == tpc = 0 /\ tlocal = 0 /\ tret = 0

\* ------------------------------------------------------------------------
\* One analyze request on a fresh server
\* ------------------------------------------------------------------------

InitAnalyze ==
    /\ pc = "received"
    /\ IdleFill
    /\ placeholders = <<>>
    /\ req \in AnalyzeRequests
    /\ fs \in {Files(BuiltIn), Files(OnlyHr)}
    /\ resp = NoResponse
    /\ nextId = 1
    /\ stored = <<>>
    /\ generated = <<>>
    /\ served = 0
    /\ whisper_model = 0 /\ loads = 0
    /\ IdleThreads

\* POST /transcribe
TranscribeEndpoint ==
    /\ pc = "received"
    /\ LET o == transcribe_endpoint(fs, nextId,
                    [model |-> whisper_model, loads |-> loads], req)
       IN  /\ fs' = o.fs
           /\ nextId' = o.nextId
           /\ resp' = o.resp
           /\ whisper_model' = o.whisper.model
           /\ loads' = o.whisper.loads
    /\ pc' = "responded"
    /\ served' = served + 1
    /\ UNCHANGED <<req, stored, generated, placeholders, tpc, tlocal, tret>>
    /\ UNCHANGED fillVars

NextAnalyze == TranscribeEndpoint

SpecAnalyze == InitAnalyze /\ [][NextAnalyze]_vars

\* ------------------------------------------------------------------------
\* The server over its file store: analyze and generate requests, one at a
\* time (the handlers are coroutines that never await), in any order
\* ------------------------------------------------------------------------

\* A custom template without brackets in its body, with a table.
TplStore == Doc(<<ParaPlain>>, <<CellPlain>>)

MetaGood ==
    Json(JDict(<<Entry(<<"F">>, Spec2(<<"a", "b">>, JStr(<<"x">>))),
                 Entry(VisitDate, Spec2(<<"b", " ">>, JStr(NotMentionedCap)))>>))

MetaFlat == Json(JDict(<<Entry(<<"N">>, JStr(<<"J", " ", "S">>))>>))

WavText == [is_wav |-> TRUE, result |-> "text"]

StoreDate == <<"2", "0", "2", "6", "-", "0", "1", "-", "0", "1">>

StoreAnalyzeRequests ==
    {Request(TRUE, TplStore, "doctor", WavText, TRUE, c, StoreDate) :
        c \in {MetaGood, MetaFlat, [kind |-> "raise", raw |-> <<>>, value |-> JNull]}}
    \cup
    {Request(TRUE, TplExplicit, "doctor", WavText, TRUE, MetaFlat, StoreDate),
     Request(FALSE, NoDoc, "hr", WavText, TRUE, MetaGood, StoreDate)}

StoreDatas ==
    { <<>>,
      <<Entry(<<"N">>, <<"x", ":", " ", "y">>), Entry(<<"F">>, <<"c">>)>> }

GenerateRequest(data, type, cid) ==
    [data |-> data, template_type |-> type, custom_template_id |-> cid]

Init ==
    /\ pc = "serving"
    /\ IdleFill
    /\ placeholders = <<>>
    /\ req = NoRequest
    /\ fs = Files(BuiltIn)
    /\ resp = NoResponse
    /\ nextId = 1
    /\ stored = <<>>
    /\ generated = <<>>
    /\ served = 0
    /\ whisper_model = 0 /\ loads = 0
    /\ IdleThreads

\* POST /transcribe. stored notes, for each identifier under which the request
\* left a template and its metadata, what it left.
Analyze(r) ==
    /\ pc = "serving"
    /\ served < MaxRequests
    /\ LET o == transcribe_endpoint(fs, nextId,
                    [model |-> whisper_model, loads |-> loads], r)
           cid == o.resp.custom_template_id
       IN  /\ fs' = o.fs
           /\ nextId' = o.nextId
           /\ resp' = o.resp
           /\ whisper_model' = o.whisper.model
           /\ loads' = o.whisper.loads
           /\ stored' = IF o.resp.status = 200 /\ cid # 0 /\ cid \in DOMAIN o.fs.meta
                        THEN (cid :> [template |-> r.template, meta |-> o.fs.meta[cid]])
                                 @@ stored
                        ELSE stored
    /\ req' = r
    /\ served' = served + 1
    /\ UNCHANGED <<pc, generated, placeholders, tpc, tlocal, tret>>
    /\ UNCHANGED fillVars

\* POST /generate-docx. generated notes each call: its request, its status,
\* the identifier of its output and the outputs there were before it.
Generate(g) ==
    /\ pc = "serving"
    /\ served < MaxRequests
    /\ LET o == generate_docx_endpoint(fs, nextId,
                    [model |-> whisper_model, loads |-> loads], g)
       IN  /\ fs' = o.fs
           /\ nextId' = o.nextId
           /\ resp' = o.resp
           /\ generated' = Append(generated,
                              [cid |-> g.custom_template_id, data |-> g.data,
                               status |-> o.resp.status, out_id |-> nextId,
                               before |-> DOMAIN fs.output,
                               known |-> g.custom_template_id \in DOMAIN stored])
    /\ served' = served + 1
    /\ UNCHANGED <<pc, req, stored, placeholders>>
    /\ UNCHANGED whisperVars
    /\ UNCHANGED fillVars

Next ==
    \/ \E r \in StoreAnalyzeRequests : Analyze(r)
    \/ \E d \in StoreDatas, cid \in 0..(nextId - 1) :
           Generate(GenerateRequest(d, "doctor", cid))

Spec == Init /\ [][Next]_vars

\* ------------------------------------------------------------------------
\* services.py: get_whisper_model, called from several threads. A thread is
\* at line 28 (the test), at line 30 before load_model returns, at line 30
\* before the global is assigned, or at line 31.
\* ------------------------------------------------------------------------

Threads == 1..NThreads

InitWhisper ==
    /\ pc = "threads"
    /\ IdleFill
    /\ IdleServer
    /\ whisper_model = 0
    /\ loads = 0
    /\ tpc = [t \in Threads |-> "idle"]
    /\ tlocal = [t \in Threads |-> 0]
    /\ tret = [t \in Threads |-> 0]

\* What a step of a thread leaves alone.
ThreadFrame ==
    /\ UNCHANGED <<pc, placeholders>>
    /\ UNCHANGED fillVars
    /\ UNCHANGED serverVars

\* A thread calls get_whisper_model.
Call(t) ==
    /\ tpc[t] = "idle"
    /\ tpc' = [tpc EXCEPT ![t] = "line28"]
    /\ UNCHANGED <<whisper_model, loads, tlocal, tret>>
    /\ ThreadFrame

\* if _whisper_model is None
Test(t) ==
    /\ tpc[t] = "line28"
    /\ tpc' = [tpc EXCEPT ![t] = IF whisper_model = 0 THEN "line30_load" ELSE "line31"]
    /\ UNCHANGED <<whisper_model, loads, tlocal, tret>>
    /\ ThreadFrame

\* whisper.load_model("base"): a new instance, numbered by the loads so far.
Load(t) ==
    /\ tpc[t] = "line30_load"
    /\ loads' = loads + 1
    /\ tlocal' = [tlocal EXCEPT ![t] = loads + 1]
    /\ tpc' = [tpc EXCEPT ![t] = "line30_store"]
    /\ UNCHANGED <<whisper_model, tret>>
    /\ ThreadFrame

\* _whisper_model = <the instance loaded>
Store(t) ==
    /\ tpc[t] = "line30_store"
    /\ whisper_model' = tlocal[t]
    /\ tpc' = [tpc EXCEPT ![t] = "line31"]
    /\ UNCHANGED <<loads, tlocal, tret>>
    /\ ThreadFrame

\* return _whisper_model
Return(t) ==
    /\ tpc[t] = "line31"
    /\ tret' = [tret EXCEPT ![t] = whisper_model]
    /\ tpc' = [tpc EXCEPT ![t] = "idle"]
    /\ UNCHANGED <<whisper_model, loads, tlocal>>
    /\ ThreadFrame

NextWhisper ==
    \E t \in Threads : Call(t) \/ Test(t) \/ Load(t) \/ Store(t) \/ Return(t)

SpecWhisper == InitWhisper /\ [][NextWhisper]_vars

\* ------------------------------------------------------------------------
\* The template analyzer on every document
\* ------------------------------------------------------------------------

InitExtract ==
    /\ pc = "input"
    /\ doc \in Docs
    /\ filled_data = <<>> /\ replacements = <<>>
    /\ afterLiteral = NoDoc /\ out = NoDoc
    /\ IdleServer
    /\ IdleWhisper

\* extract_placeholders on the template.
ExtractPlaceholders ==
    /\ pc = "input"
    /\ placeholders' = extract_placeholders(doc)
    /\ pc' = "extracted"
    /\ UNCHANGED fillVars
    /\ UNCHANGED serverVars
    /\ UNCHANGED whisperVars

NextExtract == ExtractPlaceholders

SpecExtract == InitExtract /\ [][NextExtract]_vars

\* ------------------------------------------------------------------------
\* Claims about the substitution engine and the template analyzer
\* ------------------------------------------------------------------------

\* The texts of the paragraphs of a sequence.
Texts(ps) == [i \in 1..Len(ps) |-> ParaText(ps[i])]

\* The names of the bracket spans of a text.
SpanNames(t) == Range(FindAll(t))

\* A text holds a token whose trimmed name is a key of the trimmed mapping.
HasMatchedToken(t, clean) == \E m \in SpanNames(t) : Has(clean, Strip(m))

RECURSIVE TokensReplaced(_, _, _)
\* The text with each token of a mapped name replaced by the mapped value,
\* and every other character kept.
TokensReplaced(t, clean, i) ==
    IF i > Len(t) THEN <<>>
    ELSE LET j == NextBracket(t, i + 1)
             isToken == t[i] = "[" /\ j <= Len(t) /\ j > i + 1 /\ t[j] = "]"
         IN  IF isToken /\ Has(clean, Strip(SubSeq(t, i + 1, j - 1)))
             THEN Get(clean, Strip(SubSeq(t, i + 1, j - 1)))
                     \o TokensReplaced(t, clean, j + 1)
             ELSE <<t[i]>> \o TokensReplaced(t, clean, i + 1)

Sep == <<":", " ">>

\* The runs are a bold label, up to and including the first ": ", and a
\* non-bold rest; or one plain run when the text has no ": ".
RunsRebuiltFrom(p, t) ==
    IF Contains(t, Sep)
    THEN /\ Len(p) = 2
         /\ p[1].bold = "True" /\ p[2].bold = "False"
         /\ p[1].text \o p[2].text = t
         /\ Find(p[1].text, Sep) = Len(p[1].text) - 1
    ELSE p = <<Run(t, "None")>>

\* C1: after the bracket-token pass, every body paragraph holding a token of a
\* mapped name has the text it had with each such token replaced by the mapped
\* value, in a bold label run and a non-bold value run split at the first
\* ": ", or in one plain run when there is no ": ".
C1_BracketTokenPass ==
    pc = "saved" =>
        \A i \in 1..Len(afterLiteral.body) :
            LET t == ParaText(afterLiteral.body[i])
                clean == clean_data(filled_data)
            IN  HasMatchedToken(t, clean) =>
                    /\ ParaText(out.body[i]) = TokensReplaced(t, clean, 1)
                    /\ RunsRebuiltFrom(out.body[i], TokensReplaced(t, clean, 1))

\* C2: the placeholders returned are the distinct names of the bracket spans
\* of every paragraph of the document, in strictly ascending order, and none
\* when the document has no bracket span.
C2_ExtractAllParagraphs ==
    pc = "extracted" =>
        /\ \A i \in 1..Len(placeholders) - 1 :
               StrLess(placeholders[i], placeholders[i + 1])
        /\ Range(placeholders) =
               UNION {SpanNames(t) : t \in Range(Texts(doc.body) \o Texts(doc.cells))}

\* The final value of a field spec: the field value under its name when there
\* is one, the stored new value otherwise.
ClaimedFinal(clean, spec) ==
    IF spec.name \in Keys(clean) THEN Get(clean, spec.name) ELSE spec.new

RECURSIVE LiteralTexts(_, _, _, _)
\* The texts after the field specs from the i-th on have been applied in order.
LiteralTexts(ts, clean, repl, i) ==
    IF i > Len(repl) THEN ts
    ELSE LiteralTexts(
            [k \in 1..Len(ts) |->
                IF repl[i].original # <<>> /\ Contains(ts[k], repl[i].original)
                THEN Replace(ts[k], repl[i].original, ClaimedFinal(clean, repl[i]))
                ELSE ts[k]],
            clean, repl, i + 1)

\* C3: the literal-span pass takes the field specs in order and, for each with
\* a non-empty original, replaces every occurrence of the original by the final
\* value in every body paragraph and every table-cell paragraph holding it;
\* without field specs nothing is replaced.
C3_LiteralSpanPass ==
    pc = "saved" =>
        LET clean == clean_data(filled_data)
        IN  /\ Texts(afterLiteral.body) = LiteralTexts(Texts(doc.body), clean, replacements, 1)
            /\ Texts(afterLiteral.cells) = LiteralTexts(Texts(doc.cells), clean, replacements, 1)

\* A state where two field specs were applied, one taking its value from the
\* field values, and a body paragraph and a table-cell paragraph were rewritten.
C3_Witness ==
    /\ pc = "saved"
    /\ Len(replacements) = 2
    /\ \E i \in 1..2 : /\ replacements[i].original # <<>>
                       /\ Has(clean_data(filled_data), replacements[i].name)
    /\ \E i \in 1..Len(doc.body) : ParaText(afterLiteral.body[i]) # ParaText(doc.body[i])
    /\ \E i \in 1..Len(doc.cells) : ParaText(afterLiteral.cells[i]) # ParaText(doc.cells[i])

\* A paragraph the fill has no reason to touch: no token of a mapped name and
\* no non-empty original of a field spec in its text.
Untouchable(p, clean, repl) ==
    /\ ~HasMatchedToken(ParaText(p), clean)
    /\ \A i \in 1..Len(repl) :
           repl[i].original = <<>> \/ ~Contains(ParaText(p), repl[i].original)

\* C4: a paragraph, of the body or of a table cell, with no token of a mapped
\* name and holding no field spec's original has the same runs, text and
\* formatting, in the saved document as in the template.
C4_UntouchedParagraph ==
    pc = "saved" =>
        LET clean == clean_data(filled_data)
        IN  /\ Len(out.body) = Len(doc.body) /\ Len(out.cells) = Len(doc.cells)
            /\ \A i \in 1..Len(doc.body) :
                   Untouchable(doc.body[i], clean, replacements) => out.body[i] = doc.body[i]
            /\ \A i \in 1..Len(doc.cells) :
                   Untouchable(doc.cells[i], clean, replacements) => out.cells[i] = doc.cells[i]

\* A fill with field values and field specs that rewrote one body paragraph and
\* left alone another, which has brackets and two formatted runs.
C4_Witness ==
    /\ pc = "saved"
    /\ filled_data # <<>> /\ replacements # <<>>
    /\ \E i, j \in 1..Len(doc.body) :
           /\ out.body[i] # doc.body[i]
           /\ Untouchable(doc.body[j], clean_data(filled_data), replacements)
           /\ Contains(ParaText(doc.body[j]), <<"[">>)
           /\ Len(doc.body[j]) = 2
           /\ out.body[j] = doc.body[j]

\* ------------------------------------------------------------------------
\* Claims about the analyze operation
\* ------------------------------------------------------------------------

\* The request got as far as parsing the collaborator's answer.
AnswerParsed ==
    /\ pc = "responded"
    /\ TemplatePath(fs, req).exists
    /\ req.audio.result = "text"
    /\ req.api_key
    /\ req.ai.kind # "raise"

\* C5: in explicit and in implicit mode, an answer that is not valid JSON is
\* replaced by an empty field mapping and the request completes.
C5_ParseFailureRecovered ==
    (AnswerParsed /\ req.ai.kind = "invalid") =>
        /\ resp.status = 200
        /\ resp.data = JDict(<<>>)

\* The string the normalization is to give for a value: the elements of a list
\* of strings joined by ", ", the JSON text of any other list or object, the
\* empty string for null, the text of a string or a number.
ClaimedForm(v) ==
    IF v.t = "list" /\ \A i \in 1..Len(v.items) : v.items[i].t = "str"
    THEN Join(<<",", " ">>, [i \in 1..Len(v.items) |-> v.items[i].s])
    ELSE IF v.t \in {"list", "dict"} THEN JsonDumps(v)
    ELSE IF v.t = "null" THEN <<>>
    ELSE v.s

\* The analyze request answered with a field-value mapping made from a JSON
\* object of the collaborator.
MappingReturned ==
    /\ pc = "responded"
    /\ resp.status = 200
    /\ resp.data.t = "dict"
    /\ req.ai.kind = "json"
    /\ req.ai.value.t = "dict"

\* C6: every value of the field-value mapping returned by analyze is a string,
\* the normalized form of the value the collaborator gave for the field (in
\* implicit mode, of the new value of the field's entry, or today's date put in
\* its place).
C6_NormalizationBoundary ==
    MappingReturned =>
        /\ Len(resp.data.items) = Len(req.ai.value.items)
        /\ \A i \in 1..Len(resp.data.items) :
               LET raw == req.ai.value.items[i].v
                   got == resp.data.items[i].v
               IN  /\ resp.data.items[i].k = req.ai.value.items[i].k
                   /\ got.t = "str"
                   /\ IF resp.mode = "implicit" /\ raw.t = "dict"
                      THEN got.s \in {ClaimedForm(NewOf(raw)), req.today}
                      ELSE got.s = ClaimedForm(raw)

\* What C6 leaves of the code's behaviour: every value returned is a string; in
\* implicit mode an entry that is not an object is returned as its str() text.
C6_StringsOnly ==
    MappingReturned =>
        \A i \in 1..Len(resp.data.items) :
            LET raw == req.ai.value.items[i].v
                got == resp.data.items[i].v
            IN  /\ got.t = "str"
                /\ IF resp.mode = "implicit"
                   THEN IF raw.t = "dict"
                        THEN got.s \in {ClaimedForm(NewOf(raw)), req.today}
                        ELSE got.s = PyStr(raw)
                   ELSE got.s = ClaimedForm(raw)

\* An extracted new value that is empty: left out, or "", null, [] or {}.
EmptyNew(details) ==
    \/ ~Has(details.items, NewKey)
    \/ Get(details.items, NewKey) \in {JStr(<<>>), JNull, JList(<<>>), JDict(<<>>)}

\* The date fallback applies to the entry: a name holding "date" in any case,
\* and a new value that is empty or "not mentioned" in any case.
ClaimedDateFallback(k, details) ==
    /\ \E i \in 1..Len(k) - 3 : Lower(SubSeq(k, i, i + 3)) = <<"d", "a", "t", "e">>
    /\ \/ EmptyNew(details)
       \/ /\ Get(details.items, NewKey).t = "str"
          /\ Lower(Get(details.items, NewKey).s) = NotMentioned

\* The entry the post-processing is to leave for (k, details).
ClaimedEntry(k, details, today_str) ==
    IF details.t = "dict" /\ ClaimedDateFallback(k, details)
    THEN JDict(Put(details.items, NewKey, JStr(today_str)))
    ELSE details

\* C7: in implicit mode, an entry whose name holds "date" and whose new value
\* is empty or "not mentioned" has today's date as its new value in the
\* metadata persisted and in the values returned; every other entry keeps its
\* new value in both.
C7_DateFallback ==
    (MappingReturned /\ resp.mode = "implicit") =>
        \A i \in 1..Len(req.ai.value.items) :
            LET k == req.ai.value.items[i].k
                details == req.ai.value.items[i].v
                want == ClaimedEntry(k, details, req.today)
            IN  /\ resp.custom_template_id # 0 =>
                       fs.meta[resp.custom_template_id].items[i] = Entry(k, want)
                /\ (details.t = "dict" /\ ClaimedDateFallback(k, details)) =>
                       resp.data.items[i] = Entry(k, JStr(req.today))
                /\ (details.t = "dict" /\ ~ClaimedDateFallback(k, details)
                        /\ Has(details.items, NewKey)
                        /\ Get(details.items, NewKey).t = "str") =>
                       resp.data.items[i] = Entry(k, Get(details.items, NewKey))

\* An analysis of a custom template in implicit mode where "V Date" had
\* "Not mentioned" and got today's date while "Dx" kept "Not mentioned", in the
\* metadata and in the values returned.
C7_Witness ==
    /\ MappingReturned /\ resp.mode = "implicit"
    /\ resp.custom_template_id # 0
    /\ resp.data = JDict(<<Entry(VisitDate, JStr(req.today)),
                           Entry(Dx, JStr(NotMentionedCap))>>)
    /\ fs.meta[resp.custom_template_id] =
           JDict(<<Entry(VisitDate, Spec2(<<"2", "0">>, JStr(req.today))),
                   Entry(Dx, Spec2(<<"a", "b">>, JStr(NotMentionedCap)))>>)
    /\ req.ai.value.items[1].v = Spec2(<<"2", "0">>, JStr(NotMentionedCap))

FatalDetails ==
    {"Template file missing on server", "Transcription failed",
     "GROQ_API_KEY not set on server", "HTTPError"}

\* C10: an analyze request that ends with a fatal error leaves nothing of its
\* own persisted, no custom template copy and no metadata, and keeps its audio
\* file.
C10_NoPartialResults ==
    (pc = "responded" /\ resp.status = 500 /\ resp.detail \in FatalDetails) =>
        /\ fs.custom = <<>>
        /\ fs.meta = <<>>
        /\ resp.detail # "Template file missing on server" => fs.audio # {}

\* ------------------------------------------------------------------------
\* Claims about the artifact store and the transcription model
\* ------------------------------------------------------------------------

\* The metadata holds field specs only: every entry is an object.
FieldSpecsOnly(meta) == \A i \in 1..Len(meta.items) : meta.items[i].v.t = "dict"

\* C8: a template and its metadata, once stored by an analysis under a fresh
\* identifier, stay as they were stored through every later request; every
\* generate call with the identifier fills that template with that metadata
\* and writes the result under an identifier no output had before.
C8_ArtifactStore ==
    /\ \A id \in DOMAIN stored :
           /\ id \in DOMAIN fs.custom /\ fs.custom[id] = stored[id].template
           /\ id \in DOMAIN fs.meta /\ fs.meta[id] = stored[id].meta
    /\ \A i \in 1..Len(generated) :
           LET g == generated[i]
           IN  (g.known /\ FieldSpecsOnly(stored[g.cid].meta)) =>
                   /\ g.status = 200
                   /\ g.out_id \notin g.before
                   /\ g.out_id \in DOMAIN fs.output
                   /\ fs.output[g.out_id] =
                          generate_filled_docx(stored[g.cid].template, g.data,
                                               MetaSpecs(stored[g.cid].meta)).saved

\* Two generate calls with the identifier of a stored artifact, each with its
\* own output, the first differing from the template.
C8_Witness ==
    \E i, j \in 1..Len(generated) :
        /\ i < j
        /\ generated[i].cid = generated[j].cid
        /\ generated[i].known /\ generated[j].known
        /\ generated[i].status = 200 /\ generated[j].status = 200
        /\ generated[i].out_id # generated[j].out_id
        /\ fs.output[generated[i].out_id] # stored[generated[i].cid].template
        /\ fs.custom[generated[i].cid] = stored[generated[i].cid].template

\* C9: over every interleaving of the calls, the model is loaded at most once
\* and every call returns the same instance.
C9_LoadedOnce ==
    /\ loads <= 1
    /\ \A t, u \in Threads : (tret[t] # 0 /\ tret[u] # 0) => tret[t] = tret[u]

====
